---- MODULE Spec2Model ----
(***************************************************************************)
(* A model of translator.py: the placeholder codec, the glossary           *)
(* post-processor, the translation cache, the translation worker, the      *)
(* scheduler of translate_json and the per-file orchestration of           *)
(* translate_file.                                                         *)
(*                                                                         *)
(* Text is a sequence of tokens.  A token is one character, written as a   *)
(* one-character string, except that a marker "__PLACEHOLDER_k__" is one   *)
(* token: the alphabet holds no underscore and no upper-case letter that   *)
(* could form part of a marker, no placeholder pattern can begin or end    *)
(* inside a marker, and a marker cannot overlap another marker, so every   *)
(* regular-expression match and every str.replace of the code falls on     *)
(* token borders.                                                          *)
(***************************************************************************)
EXTENDS Integers, Sequences, FiniteSets, TLC

(***************************************************************************)
(* Bounds of the model.                                                    *)
(***************************************************************************)
MaxPieces == 3

\* F applied to the value of e, e being evaluated once
Bind(e, F(_)) == CHOOSE r \in {F(x) : x \in {e}} : TRUE

(***************************************************************************)
(* Characters.                                                             *)
(***************************************************************************)
MarkerNames ==
    << "__PLACEHOLDER_0__", "__PLACEHOLDER_1__", "__PLACEHOLDER_2__",
       "__PLACEHOLDER_3__", "__PLACEHOLDER_4__", "__PLACEHOLDER_5__",
       "__PLACEHOLDER_6__", "__PLACEHOLDER_7__" >>

\* f"__PLACEHOLDER_{k}__"
Marker(k) == MarkerNames[k + 1]

Markers == {MarkerNames[k] : k \in 1..Len(MarkerNames)}

LowerLetters == {"a", "d", "h", "i", "k", "n", "o", "s", "x"}
UpperLetters == {"A", "D", "H", "I", "K", "N", "O", "S", "X"}
Digits == {"0", "1"}
Punct == {"{", "}", "[", "]", "%", "$", "(", ")", " ", ".", "!"}

Tokens == LowerLetters \cup UpperLetters \cup Digits \cup Punct \cup Markers

\* str.upper() of one character; a marker is upper case already
Upper(t) ==
    CASE t = "a" -> "A" [] t = "d" -> "D" [] t = "h" -> "H" [] t = "i" -> "I"
      [] t = "k" -> "K" [] t = "n" -> "N" [] t = "o" -> "O" [] t = "s" -> "S"
      [] t = "x" -> "X" [] OTHER -> t

\* case folding of re.IGNORECASE
Fold(t) ==
    CASE t = "A" -> "a" [] t = "D" -> "d" [] t = "H" -> "h" [] t = "I" -> "i"
      [] t = "K" -> "k" [] t = "N" -> "n" [] t = "O" -> "o" [] t = "S" -> "s"
      [] t = "X" -> "x" [] OTHER -> t

\* \w : letters, digits, underscore (a marker is made of these only)
WordChars == LowerLetters \cup UpperLetters \cup Digits \cup Markers
\* [a-zA-Z_] : a marker begins with an underscore
AlphaUnderscore == LowerLetters \cup UpperLetters \cup Markers
\* \s
SpaceChars == {" "}

\* str.strip() is non-empty
StripNonEmpty(s) == \E k \in 1..Len(s) : s[k] \notin SpaceChars

(***************************************************************************)
(* Regular-expression matching of PLACEHOLDER_PATTERNS_COMPILED.           *)
(***************************************************************************)
At(s, k) == IF k >= 1 /\ k <= Len(s) THEN s[k] ELSE ""

\* the last position of the longest run of tokens of S that starts at j
\* (j - 1 when s[j] is not in S)
RunEnd(s, j, S) ==
    LET bad == {k \in j..Len(s) : s[k] \notin S}
    IN  IF bad = {} THEN Len(s)
        ELSE (CHOOSE k \in bad : \A m \in bad : k <= m) - 1

NumPatterns == 7

\* The position of the last token of the match of pattern p that starts at
\* position i of s, 0 when there is none.  Every class repetition is greedy
\* and is followed by a character outside the class, so the regex engine has
\* nothing to backtrack to.
MatchEnd(p, s, i) ==
    CASE p = 1 ->   \* \{\{[^}]+\}\}
           LET e == RunEnd(s, i + 2, Tokens \ {"}"})
           IN  IF At(s, i) = "{" /\ At(s, i + 1) = "{" /\ e >= i + 2
                  /\ At(s, e + 1) = "}" /\ At(s, e + 2) = "}"
               THEN e + 2 ELSE 0
      [] p = 2 ->   \* \{[0-9]+\}
           LET e == RunEnd(s, i + 1, Digits)
           IN  IF At(s, i) = "{" /\ e >= i + 1 /\ At(s, e + 1) = "}"
               THEN e + 1 ELSE 0
      [] p = 3 ->   \* \{[a-zA-Z_][a-zA-Z0-9_]*\}
           LET e == RunEnd(s, i + 2, WordChars)
           IN  IF At(s, i) = "{" /\ At(s, i + 1) \in AlphaUnderscore
                  /\ At(s, e + 1) = "}"
               THEN e + 1 ELSE 0
      [] p = 4 ->   \* %[sd]
           IF At(s, i) = "%" /\ At(s, i + 1) \in {"s", "d"}
           THEN i + 1 ELSE 0
      [] p = 5 ->   \* %\([^)]+\)[sd]
           LET e == RunEnd(s, i + 2, Tokens \ {")"})
           IN  IF At(s, i) = "%" /\ At(s, i + 1) = "(" /\ e >= i + 2
                  /\ At(s, e + 1) = ")" /\ At(s, e + 2) \in {"s", "d"}
               THEN e + 2 ELSE 0
      [] p = 6 ->   \* \$\{[^}]+\}
           LET e == RunEnd(s, i + 2, Tokens \ {"}"})
           IN  IF At(s, i) = "$" /\ At(s, i + 1) = "{" /\ e >= i + 2
                  /\ At(s, e + 1) = "}"
               THEN e + 1 ELSE 0
      [] OTHER ->   \* \[\[[\w\s]+\]\]
           LET e == RunEnd(s, i + 2, WordChars \cup SpaceChars)
           IN  IF At(s, i) = "[" /\ At(s, i + 1) = "[" /\ e >= i + 2
                  /\ At(s, e + 1) = "]" /\ At(s, e + 2) = "]"
               THEN e + 2 ELSE 0

RECURSIVE FindSpans(_, _, _)
\* the spans <<first, last>> of pattern.findall(s): leftmost, non-overlapping
FindSpans(p, s, i) ==
    IF i > Len(s) THEN << >>
    ELSE LET e == MatchEnd(p, s, i)
         IN  IF e = 0 THEN FindSpans(p, s, i + 1)
             ELSE << <<i, e>> >> \o FindSpans(p, s, e + 1)

\* pattern.findall(s): the matched texts
FindAll(p, s) ==
    LET sp == FindSpans(p, s, 1)
    IN  [k \in 1..Len(sp) |-> SubSeq(s, sp[k][1], sp[k][2])]

(***************************************************************************)
(* str.replace                                                             *)
(***************************************************************************)
OccursAt(s, sub, i) ==
    /\ i >= 1
    /\ i + Len(sub) - 1 <= Len(s)
    /\ SubSeq(s, i, i + Len(sub) - 1) = sub

\* s.replace(sub, rep, 1)
ReplaceFirst(s, sub, rep) ==
    LET occ == {i \in 1..Len(s) : OccursAt(s, sub, i)}
    IN  IF occ = {} THEN s
        ELSE LET i == CHOOSE k \in occ : \A m \in occ : k <= m
             IN  SubSeq(s, 1, i - 1) \o rep \o SubSeq(s, i + Len(sub), Len(s))

RECURSIVE ReplaceAllFrom(_, _, _, _)
ReplaceAllFrom(s, sub, rep, i) ==
    IF i > Len(s) THEN << >>
    ELSE IF OccursAt(s, sub, i)
         THEN rep \o ReplaceAllFrom(s, sub, rep, i + Len(sub))
         ELSE << s[i] >> \o ReplaceAllFrom(s, sub, rep, i + 1)

\* s.replace(sub, rep), sub not empty
ReplaceAll(s, sub, rep) == ReplaceAllFrom(s, sub, rep, 1)

(***************************************************************************)
(* Placeholder codec.                                                      *)
(***************************************************************************)
RECURSIVE ExtractMatches(_, _, _, _)
\* the inner loop of _extract_placeholders: for match in matches
ExtractMatches(processed, placeholders, matches, j) ==
    IF j > Len(matches)
    THEN [text |-> processed, placeholders |-> placeholders]
    ELSE Bind(ReplaceFirst(processed, matches[j], << Marker(Len(placeholders)) >>),
              LAMBDA replaced :
                  ExtractMatches(replaced, Append(placeholders, matches[j]),
                                 matches, j + 1))

RECURSIVE ExtractPatterns(_, _, _)
\* the outer loop of _extract_placeholders: for pattern in PATTERNS
ExtractPatterns(p, processed, placeholders) ==
    IF p > NumPatterns
    THEN [text |-> processed, placeholders |-> placeholders]
    ELSE Bind(ExtractMatches(processed, placeholders, FindAll(p, processed), 1),
              LAMBDA r : ExtractPatterns(p + 1, r.text, r.placeholders))

\* _extract_placeholders(text) -> (processed_text, placeholders)
extract_placeholders(text) == ExtractPatterns(1, text, << >>)

RECURSIVE RestoreFrom(_, _, _)
RestoreFrom(result, placeholders, i) ==
    IF i > Len(placeholders) THEN result
    ELSE Bind(ReplaceAll(result, << Marker(i - 1) >>, placeholders[i]),
              LAMBDA replaced : RestoreFrom(replaced, placeholders, i + 1))

\* _restore_placeholders(text, placeholders): every marker that is found is
\* replaced, a marker that is not found changes nothing
RestoreAllOrNothing(text, placeholders) ==
    IF \A i \in 1..Len(placeholders) : \E k \in 1..Len(text) : text[k] = Marker(i - 1)
    THEN RestoreFrom(text, placeholders, 1)
    ELSE text
restore_placeholders(text, placeholders) == RestoreFrom(text, placeholders, 1)

(***************************************************************************)
(* Glossary post-processor.  A glossary is a sequence of entries           *)
(* [src |-> term, tgt |-> term] in the dict's iteration order.             *)
(***************************************************************************)
IsWordAt(s, k) == k >= 1 /\ k <= Len(s) /\ s[k] \in WordChars

\* \b between positions p - 1 and p
Boundary(s, p) == IsWordAt(s, p - 1) # IsWordAt(s, p)

\* r'\b' + re.escape(term) + r'\b', re.IGNORECASE, matching at position i
GlossaryMatchAt(s, term, i) ==
    /\ i + Len(term) - 1 <= Len(s)
    /\ \A k \in 1..Len(term) : Fold(s[i + k - 1]) = Fold(term[k])
    /\ Boundary(s, i)
    /\ Boundary(s, i + Len(term))

RECURSIVE SubFrom(_, _, _, _)
\* pattern.sub(target_term, s)
SubFrom(s, term, tgt, i) ==
    IF i > Len(s) THEN << >>
    ELSE IF GlossaryMatchAt(s, term, i)
         THEN tgt \o SubFrom(s, term, tgt, i + Len(term))
         ELSE << s[i] >> \o SubFrom(s, term, tgt, i + 1)

RECURSIVE GlossaryFrom(_, _, _)
GlossaryFrom(result, glossary, j) ==
    IF j > Len(glossary) THEN result
    ELSE Bind(SubFrom(result, glossary[j].src, glossary[j].tgt, 1),
              LAMBDA replaced : GlossaryFrom(replaced, glossary, j + 1))

\* _apply_glossary(text)
apply_glossary(text, glossary) ==
    IF glossary = << >> THEN text ELSE GlossaryFrom(text, glossary, 1)

(***************************************************************************)
(* JSON values.  Every node is a record of the same shape; a dict keeps    *)
(* its keys in insertion order, a key is a text.  NoneVal stands for       *)
(* Python's None where a text is expected.                                 *)
(***************************************************************************)
NoneVal == << "<None>" >>

Str(s) == [tag |-> "str", s |-> s, n |-> 0, keys |-> << >>, kids |-> << >>]
Num(n) == [tag |-> "num", s |-> << >>, n |-> n, keys |-> << >>, kids |-> << >>]
Bool(b) == [tag |-> "bool", s |-> << >>, n |-> IF b THEN 1 ELSE 0,
            keys |-> << >>, kids |-> << >>]
Null == [tag |-> "null", s |-> << >>, n |-> 0, keys |-> << >>, kids |-> << >>]
Dict(keys, kids) == [tag |-> "dict", s |-> << >>, n |-> 0, keys |-> keys, kids |-> kids]
List(kids) == [tag |-> "list", s |-> << >>, n |-> 0, keys |-> << >>, kids |-> kids]
\* no file at the output path
NoFile == [tag |-> "nofile", s |-> << >>, n |-> 0, keys |-> << >>, kids |-> << >>]

\* a Python value stored into the tree: a text, or None
ValueNode(v) == IF v = NoneVal THEN Null ELSE Str(v)

\* bool(value)
Truthy(v) ==
    CASE v.tag = "dict" -> Len(v.kids) > 0
      [] v.tag = "list" -> Len(v.kids) > 0
      [] v.tag = "str" -> Len(v.s) > 0
      [] v.tag = "num" -> v.n # 0
      [] v.tag = "bool" -> v.n = 1
      [] OTHER -> FALSE

\* one step of a path: ('dict', parent, key) or ('list', parent, i); the
\* parent is the container the path's prefix leads to
DictStep(key) == [t |-> "dict", key |-> key, idx |-> 0]
ListStep(i) == [t |-> "list", key |-> << >>, idx |-> i]

\* isinstance(obj, str) and obj.strip()
IsTranslatableAll(obj) == obj.tag = "str"
IsTranslatable(obj) == obj.tag = "str" /\ StripNonEmpty(obj.s)

RECURSIVE traverse(_, _)
RECURSIVE TraverseKids(_, _, _)
\* traverse of _collect_all_strings: the (path, text) pairs in dict
\* insertion order and list index order
traverse(obj, path) ==
    IF obj.tag \in {"dict", "list"} THEN TraverseKids(obj, path, 1)
    ELSE IF IsTranslatable(obj) THEN << [path |-> path, text |-> obj.s] >>
    ELSE << >>

TraverseKids(obj, path, k) ==
    IF k > Len(obj.kids) THEN << >>
    ELSE traverse(obj.kids[k],
                  Append(path, IF obj.tag = "dict" THEN DictStep(obj.keys[k])
                               ELSE ListStep(k - 1)))
         \o TraverseKids(obj, path, k + 1)

\* _collect_all_strings(data)
collect_all_strings(data) == traverse(data, << >>)

\* the position among kids that a step selects in a container, 0 if none
KidIndex(obj, step) ==
    IF step.t = "dict"
    THEN IF \E k \in 1..Len(obj.keys) : obj.keys[k] = step.key
         THEN CHOOSE k \in 1..Len(obj.keys) : obj.keys[k] = step.key
         ELSE 0
    ELSE IF step.idx + 1 <= Len(obj.kids) THEN step.idx + 1 ELSE 0

RECURSIVE NodeAt(_, _)
\* the node a path leads to (NoFile when the path leaves the tree)
NodeAt(obj, path) ==
    IF path = << >> THEN obj
    ELSE LET k == KidIndex(obj, path[1])
         IN  IF k = 0 THEN NoFile ELSE NodeAt(obj.kids[k], Tail(path))

RECURSIVE StoreAt(_, _, _)
\* parent[key] = value, the parent being the container at the path's prefix
StoreAt(obj, path, node) ==
    IF path = << >> THEN node
    ELSE LET k == KidIndex(obj, path[1])
         IN  IF k = 0 THEN obj
             ELSE [obj EXCEPT !.kids[k] = StoreAt(obj.kids[k], Tail(path), node)]

\* the write-back of one unit: "if path: parent[key] = translated_strings[i]"
WriteBackOne(tree, path, value) ==
    IF path # << >> THEN StoreAt(tree, path, ValueNode(value)) ELSE tree

RECURSIVE WriteBackFrom(_, _, _, _)
\* "for i, (path, original) in enumerate(string_data): if i < len(...)"
WriteBackFrom(tree, sd, ts, i) ==
    IF i > Len(sd) THEN tree
    ELSE Bind(IF i - 1 < Len(ts) THEN WriteBackOne(tree, sd[i].path, ts[i])
              ELSE tree,
              LAMBDA written : WriteBackFrom(written, sd, ts, i + 1))

WriteBack(tree, sd, ts) == WriteBackFrom(tree, sd, ts, 1)

(***************************************************************************)
(* Path strings of translate_file's get_structure: texts such as a.d[0]    *)
(***************************************************************************)
IndexText(i) == << "[" >> \o (IF i = 0 THEN << "0" >> ELSE IF i = 1 THEN << "1" >>
                              ELSE IF i = 2 THEN << "2" >> ELSE IF i = 3 THEN << "3" >>
                              ELSE IF i = 4 THEN << "4" >> ELSE << "5" >>) \o << "]" >>

RECURSIVE get_structure(_, _)
RECURSIVE StructureKids(_, _, _)
get_structure(obj, path) ==
    IF obj.tag \in {"dict", "list"} THEN StructureKids(obj, path, 1) ELSE {}

StructureKids(obj, path, k) ==
    IF k > Len(obj.kids) THEN {}
    ELSE LET new_path ==
                 IF obj.tag = "dict"
                 THEN (IF path # << >> THEN path \o << "." >> \o obj.keys[k]
                       ELSE obj.keys[k])
                 ELSE path \o IndexText(k - 1)
         IN  {new_path} \cup get_structure(obj.kids[k], new_path)
             \cup StructureKids(obj, path, k + 1)

(***************************************************************************)
(* detect_language's sampling                                              *)
(***************************************************************************)
MaxSamples == 20

RECURSIVE collect_strings(_, _)
RECURSIVE CollectStringsKids(_, _, _)
\* _collect_strings(data, collector, max_samples): the collector afterwards
collect_strings(obj, collector) ==
    IF Len(collector) >= MaxSamples THEN collector
    ELSE IF obj.tag \in {"dict", "list"} THEN CollectStringsKids(obj, collector, 1)
    ELSE IF obj.tag = "str" /\ StripNonEmpty(obj.s) THEN Append(collector, obj.s)
    ELSE collector

CollectStringsKids(obj, collector, k) ==
    IF k > Len(obj.kids) THEN collector
    ELSE CollectStringsKids(obj, collect_strings(obj.kids[k], collector), k + 1)

(***************************************************************************)
(* Translation cache: the rows of table translations, primary key          *)
(* (text_hash, source_lang, target_lang).                                  *)
(***************************************************************************)
\* two texts with the same MD5 digest, faad49866e9498fc1719f5289e7a0269
CollidingA ==
    << "T", "E", "X", "T", "C", "O", "L", "L", "B", "Y", "f", "G", "i", "J",
       "U", "E", "T", "H", "Q", "4", "h", "A", "c", "K", "S", "M", "d", "5",
       "z", "Y", "p", "g", "q", "f", "1", "Y", "R", "D", "h", "k", "m", "x",
       "H", "k", "h", "P", "W", "p", "t", "r", "k", "o", "y", "z", "2", "8",
       "w", "n", "I", "9", "V", "0", "a", "H", "e", "A", "u", "a", "K", "n",
       "a", "k" >>
CollidingB ==
    << "T", "E", "X", "T", "C", "O", "L", "L", "B", "Y", "f", "G", "i", "J",
       "U", "E", "T", "H", "Q", "4", "h", "E", "c", "K", "S", "M", "d", "5",
       "z", "Y", "p", "g", "q", "f", "1", "Y", "R", "D", "h", "k", "m", "x",
       "H", "k", "h", "P", "W", "p", "t", "r", "k", "o", "y", "z", "2", "8",
       "w", "n", "I", "9", "V", "0", "a", "H", "e", "A", "u", "a", "K", "n",
       "a", "k" >>

\* hashlib.md5(text.encode('utf-8')).hexdigest(): not injective.  A digest is
\* written as one text that has it: the two texts above have the same
\* digest, the digests of the other texts of the model are pairwise different.
get_hash(text) ==
    << "md5", IF text = CollidingB THEN CollidingA ELSE text >>

\* cursor.fetchone() of the SELECT in TranslationCache.get; None if no row
CacheGet(rows, text, src, tgt) ==
    LET hit == {r \in rows : r.text_hash = get_hash(text)
                             /\ r.source_lang = src /\ r.target_lang = tgt}
    IN  IF hit = {} THEN NoneVal ELSE (CHOOSE r \in hit : TRUE).translated_text

\* INSERT OR REPLACE of TranslationCache.set
CacheSet(rows, text, src, tgt, translated) ==
    {r \in rows : ~(r.text_hash = get_hash(text)
                    /\ r.source_lang = src /\ r.target_lang = tgt)}
    \cup {[text_hash |-> get_hash(text), source_lang |-> src,
           target_lang |-> tgt, original_text |-> text,
           translated_text |-> translated]}

\* "if cached:" a row with an empty translated_text counts as no row
CachedTruthy(cached) == cached # NoneVal /\ cached # << >>

(***************************************************************************)
(* The backend collaborator: the stub that upper-cases its input.          *)
(***************************************************************************)
BackendTranslate(processed) ==
    Bind(processed, LAMBDA p : [k \in 1..Len(p) |-> Upper(p[k])])

\* what _translate_single_indexed computes after a successful backend call
Restored(ex) ==
    Bind(BackendTranslate(ex.text),
         LAMBDA translated :
             IF ex.placeholders # << >>
             THEN restore_placeholders(translated, ex.placeholders)
             ELSE translated)

Translated(text, glossary) ==
    Bind(extract_placeholders(text),
         LAMBDA ex :
             Bind(Restored(ex),
                  LAMBDA restored :
                      IF glossary # << >> THEN apply_glossary(restored, glossary)
                      ELSE restored))

\* the value the except branch returns: the original text
FallbackNone(text) == NoneVal
Fallback(text) == text

\* the text cache.set is given as the key: the unit's text as it came in
CacheKeyTextProcessed(text) == extract_placeholders(text).text
CacheKeyText(text) == text

\* the cache after the except branch: the branch makes no cache call
CacheAfterFailureStored(rows, text, src, tgt) == CacheSet(rows, text, src, tgt, text)
CacheAfterFailure(rows, text, src, tgt) == rows

(***************************************************************************)
(* Inputs of the model: documents, glossaries, caches, configurations.     *)
(***************************************************************************)
MaxWorkers == 2
MaxBatchSize == 2

\* {"h": "hi {{n}}", "n": 3}
DocScenario ==
    Dict(<< <<"h">>, <<"n">> >>,
         << Str(<<"h", "i", " ", "{", "{", "n", "}", "}">>), Num(3) >>)

\* {"a": "hi", "d": ["ok", "  ", 7, "hi"], "k": {"x": true, "s": null, "i": "{n}!"}, "o": ""}
DocMixed ==
    Dict(<< <<"a">>, <<"d">>, <<"k">>, <<"o">> >>,
         << Str(<<"h", "i">>),
            List(<< Str(<<"o", "k">>), Str(<<" ", " ">>), Num(7), Str(<<"h", "i">>) >>),
            Dict(<< <<"x">>, <<"s">>, <<"i">> >>,
                 << Bool(TRUE), Null, Str(<<"{", "n", "}", "!">>) >>),
            Str(<< >>) >>)

\* ["a", "hi", "%s ok"]
DocList ==
    List(<< Str(<<"a">>), Str(<<"h", "i">>), Str(<<"%", "s", " ", "o", "k">>) >>)

\* "hi" : the top level is itself a string
DocTop == Str(<<"h", "i">>)

\* {"n": 0, "x": [false, ""]} : no text at all
DocNoText ==
    Dict(<< <<"n">>, <<"x">> >>, << Num(0), List(<< Bool(FALSE), Str(<< >>) >>) >>)

\* five units: more chunks of one unit than the outer pool has threads
DocFive == List(<< Str(<<"a">>), Str(<<"a">>), Str(<<"a">>), Str(<<"a">>), Str(<<"a">>) >>)

\* {"a.b": "hi"} : a key with a dot in it
DocFlat == Dict(<< <<"a", ".", "b">> >>, << Str(<<"h", "i">>) >>)

Docs == {DocScenario, DocMixed, DocList, DocTop, DocNoText, DocFive, DocFlat}

\* prior outputs found at the output path in diff mode
PriorOutputs(doc) ==
    IF doc = DocScenario
    THEN { Dict(<< <<"h">>, <<"n">> >>, << Str(<<"o", "k">>), Num(4) >>),
           Dict(<< <<"h">> >>, << Str(<<"o", "k">>) >>),
           Dict(<< <<"h">>, <<"n">>, <<"x">> >>,
                << Str(<<"o", "k">>), Num(4), Str(<<"a">>) >>) }
    ELSE IF doc = DocTop THEN { Str(<<"o", "k">>), Str(<< >>) }
    ELSE IF doc = DocNoText
    THEN { DocNoText, Dict(<< >>, << >>) }
    ELSE IF doc = DocFlat
    THEN { Dict(<< <<"a">> >>, << Dict(<< <<"b">> >>, << Str(<<"o", "k">>) >>) >>) }
    ELSE { doc }

Glossaries ==
    { << >>,
      << [src |-> <<"n">>, tgt |-> <<"x">>] >>,
      << [src |-> <<"h", "i">>, tgt |-> << >>] >> }

Row(text, src, tgt, translated) ==
    [text_hash |-> get_hash(text), source_lang |-> src, target_lang |-> tgt,
     original_text |-> text, translated_text |-> translated]

\* what earlier runs may have left in the cache file
InitCaches == { {}, {Row(<<"h", "i">>, "en", "es", <<"o", "k">>)} }

Configs ==
    [ entry : {"json", "file"},
      doc : Docs,
      source_lang : {"en", "auto"},
      target_lang : {"es"},
      use_cache : BOOLEAN,
      max_workers : 1..MaxWorkers,
      batch_size : 0..MaxBatchSize,
      diff_mode : BOOLEAN,
      glossary : Glossaries,
      cache0 : InitCaches,
      cache_faulty : BOOLEAN,
      twice : BOOLEAN ]

\* the configurations explored: every dispatch mode with every document
\* (chunks of one unit only with the three-unit and the five-unit list);
\* glossaries, a faulty cache and a second run with some of the documents
Explored(c) ==
    /\ (c.entry = "json") => (~c.diff_mode /\ c.source_lang = "en")
    /\ (c.entry = "file") =>
          /\ c.batch_size = 0 /\ c.max_workers = 1 /\ ~c.twice /\ ~c.cache_faulty
          /\ c.glossary = << >> /\ c.cache0 = {} /\ c.use_cache
          /\ c.doc \in {DocScenario, DocTop, DocNoText, DocFlat}
    /\ ~c.use_cache => (c.cache0 = {} /\ ~c.cache_faulty /\ ~c.twice)
    /\ c.glossary # << >> => (c.max_workers = 1 /\ ~c.cache_faulty
                              /\ c.doc \in {DocScenario, DocMixed, DocTop})
    /\ c.cache_faulty => (c.cache0 = {} /\ ~c.twice /\ c.doc = DocList)
    /\ c.doc = DocMixed => c.batch_size # 1
    /\ c.doc = DocFive => (c.entry = "json" /\ ~c.use_cache /\ c.batch_size = 1
                           /\ c.max_workers = 1 /\ c.glossary = << >>)
    /\ c.doc = DocFlat => (c.entry = "file" /\ c.diff_mode)
    /\ c.twice => (c.batch_size = 0 /\ c.doc \in {DocScenario, DocMixed, DocTop})

Scenarios == {c \in Configs : Explored(c)}

(***************************************************************************)
(* State.                                                                  *)
(***************************************************************************)
VARIABLES
    cfg,                 \* the JSONTranslator's constructor arguments and the input
    source_lang,         \* self.source_lang
    pc,                  \* where the main thread is
    data,                \* the caller's tree (the object passed to translate_json)
    copy,                \* the object copy.deepcopy made
    result_ref,          \* which object translate_json's "result" refers to
    existing_data,       \* translate_file's existing_data
    translated_data,     \* what translate_json returned / translate_file writes
    outFile,             \* the file at output_path
    string_data,         \* the (path, text) units
    translated_strings,  \* the pre-sized result list
    slot_writes,         \* per slot of the result list: the assignments to it
    ust,                 \* per unit: queued, running, finished, collected
    fut,                 \* per unit: what its call returned or raised
    bst,                 \* per super-batch: queued, running, done, collected
    bres,                \* per super-batch: the results list of _process_super_batch
    cache,               \* the rows of the cache table
    cache_hits,          \* self.cache_hits
    translation_count,   \* self.translation_count
    outcome,             \* per unit: how its call ended
    calls,               \* per unit: backend calls made for it
    run,                 \* 1, or 2 for the run with the cache the first left
    prev,                \* what the first run ended with
    cpc, ctext, cmasked, cplaceholders, cout,  \* the codec on its own
    sets,                \* the cache on its own: the set calls made, in order
    got,                 \* the cache on its own: the last get call and its result
    threads,             \* the threads on their own: the live threads
    translators,         \* self._translators: the keys that have a client
    connections,         \* TranslationCache._connections: the keys that have one
    seen,                \* the thread identifiers given out so far
    cli                  \* main on its own: the loop over the target languages

passVars == << string_data, translated_strings, slot_writes, ust, fut, bst, bres, outcome, calls >>
codecVars == << cpc, ctext, cmasked, cplaceholders, cout >>
fileVars == << existing_data, outFile >>
threadVars == << threads, translators, connections, seen >>
sideVars == << sets, got, threadVars, cli >>
vars == << cfg, source_lang, pc, data, copy, result_ref, existing_data,
           translated_data, outFile, string_data, translated_strings,
           slot_writes, ust, fut,
           bst, bres, cache, cache_hits, translation_count, outcome, calls,
           run, prev, cpc, ctext, cmasked, cplaceholders, cout, sets, got,
           threads, translators, connections, seen, cli >>

NoFuture == [index |-> 0, val |-> NoneVal, exc |-> FALSE]
NoPrev == [out |-> << >>, hits |-> 0, tree |-> Null, cached |-> FALSE, clean |-> FALSE]

CodecIdle ==
    /\ cpc = "off" /\ ctext = << >> /\ cmasked = << >>
    /\ cplaceholders = << >> /\ cout = << >>

NoGet == [text |-> << >>, src |-> "", tgt |-> "", result |-> NoneVal, made |-> FALSE]

CacheApiIdle == sets = << >> /\ got = NoGet

NoCli == [targets |-> << >>, i |-> 0, saved |-> << >>, failed |-> << >>, rc |-> "none"]
CliIdle == cli = NoCli

ThreadsIdle ==
    threads = {} /\ translators = {} /\ connections = {} /\ seen = {}

PassReset ==
    /\ string_data = << >> /\ translated_strings = << >>
    /\ slot_writes = << >>
    /\ ust = << >> /\ fut = << >> /\ bst = << >> /\ bres = << >>
    /\ outcome = << >> /\ calls = << >>

Init ==
    \E c \in Scenarios :
        /\ cfg = c
        /\ source_lang = c.source_lang
        /\ pc = IF c.entry = "file" THEN "f_read" ELSE "tj_start"
        /\ data = c.doc
        /\ copy = Null
        /\ result_ref = "none"
        /\ existing_data = Null
        /\ translated_data = Null
        /\ outFile \in IF c.diff_mode THEN PriorOutputs(c.doc)
                       ELSE IF c.entry = "file" THEN PriorOutputs(c.doc) \cup {NoFile}
                       ELSE {NoFile}
        /\ cache = c.cache0
        /\ cache_hits = 0
        /\ translation_count = 0
        /\ run = 1
        /\ prev = NoPrev
        /\ PassReset
        /\ CodecIdle
        /\ CacheApiIdle
        /\ CliIdle
        /\ ThreadsIdle

(***************************************************************************)
(* translate_json: dispatch.                                               *)
(***************************************************************************)
N == Len(string_data)
Units == 1..N                       \* unit u has Python index u - 1
TextOf(u) == string_data[u].text

MaxSuperPool == 4

\* ThreadPoolExecutor(max_workers=min(len(super_batches), 4))
SuperPoolSizeAll(n) == n
SuperPoolSize(n) == IF n < MaxSuperPool THEN n ELSE MaxSuperPool

\* the branch translate_json takes
Mode(n) ==
    IF cfg.batch_size > 0 /\ n > cfg.batch_size THEN "super"
    ELSE IF cfg.max_workers > 1 THEN "flat"
    ELSE "seq"

\* range(0, len(strings_to_translate), batch_size): the number of chunks
NumBatches(n) ==
    IF cfg.batch_size > 0 THEN (n + cfg.batch_size - 1) \div cfg.batch_size ELSE 0
Batches == 1..Len(bst)              \* batch b has batch_id b - 1
\* the chunk of a unit: strings_to_translate[i:i + batch_size]
BatchOf(u) == ((u - 1) \div cfg.batch_size) + 1
\* the start index of a chunk: i in range(0, n, batch_size)
StartIndexZero(b) == 0
StartIndex(b) == (b - 1) * cfg.batch_size
\* the units of a chunk: strings_to_translate[i:i + batch_size]
UnitsOf(b) ==
    {u \in Units : StartIndex(b) < u /\ u <= StartIndex(b) + cfg.batch_size}

\* executor.submit(self._translate_single_indexed, start_index + idx, text)
SubmitIndexLocal(start_index, idx) == idx
SubmitIndex(start_index, idx) == start_index + idx

\* the index a unit's call is given
IndexArg(u) ==
    IF pc = "super"
    THEN SubmitIndex(StartIndex(BatchOf(u)), (u - 1) - StartIndex(BatchOf(u)))
    ELSE u - 1

Running(S) == Cardinality({u \in S : ust[u] = "running"})
Lowest(S, u) == u \in S /\ \A v \in S : u <= v

\* a worker thread is free to take the unit from its pool's queue; the
\* sequential loop calls the units one after the other
CanStart(u) ==
    /\ ust[u] = "queued"
    /\ CASE pc = "seq" -> \A v \in Units : v < u => ust[v] = "collected"
         [] pc = "flat" ->
               /\ Lowest({v \in Units : ust[v] = "queued"}, u)
               /\ Running(Units) < cfg.max_workers
         [] pc = "super" ->
               /\ bst[BatchOf(u)] = "running"
               /\ Lowest({v \in UnitsOf(BatchOf(u)) : ust[v] = "queued"}, u)
               /\ Running(UnitsOf(BatchOf(u))) < cfg.max_workers
         [] OTHER -> FALSE

SetSlot(ts, idx, val) ==
    IF idx + 1 \in 1..Len(ts) THEN [ts EXCEPT ![idx + 1] = val] ELSE ts

\* the assignment translated_strings[idx] = ... is counted
CountSlot(sw, idx) ==
    IF idx + 1 \in 1..Len(sw) THEN [sw EXCEPT ![idx + 1] = @ + 1] ELSE sw

\* where translate_json's return or exception leads
Returned == IF cfg.entry = "file" THEN "f_write" ELSE "done"

Obj(ref) == IF ref = "data" THEN data ELSE copy

\* result = copy.deepcopy(data): result refers to a new object
DeepCopyAlias == "data"
DeepCopyRef == "copy"

\* translate_json up to the choice of the dispatch branch
TJ_Begin ==
    /\ pc = "tj_start"
    /\ copy' = data
    /\ result_ref' = DeepCopyRef
    /\ LET sd == collect_all_strings(data)
           n == Len(sd)
       IN  /\ string_data' = sd
           /\ IF n = 0
              THEN /\ pc' = Returned
                   /\ translated_data' = data
                   /\ UNCHANGED << translated_strings, slot_writes, ust, fut, bst, bres,
                                   outcome, calls >>
              ELSE /\ pc' = Mode(n)
                   /\ translated_strings' = [i \in 1..n |-> NoneVal]
                   /\ slot_writes' = [i \in 1..n |-> 0]
                   /\ ust' = [i \in 1..n |-> "queued"]
                   /\ fut' = [i \in 1..n |-> NoFuture]
                   /\ outcome' = [i \in 1..n |-> "none"]
                   /\ calls' = [i \in 1..n |-> 0]
                   /\ bst' = IF Mode(n) = "super"
                             THEN [b \in 1..NumBatches(n) |-> "queued"] ELSE << >>
                   /\ bres' = IF Mode(n) = "super"
                              THEN [b \in 1..NumBatches(n) |-> << >>] ELSE << >>
                   /\ UNCHANGED translated_data
    /\ UNCHANGED << cfg, source_lang, data, existing_data, outFile, cache,
                    cache_hits, translation_count, run, prev, codecVars, sideVars >>

\* "with self._lock: self.cache_hits += 1" and the same for
\* translation_count: under the lock the read and the write of the counter
\* are one step for every other worker
IncrementedLost(n) == n
Incremented(n) == n + 1

\* a unit's call ends: its future holds the result, or the sequential loop
\* has it
Finish(u, val, how) ==
    /\ ust' = [ust EXCEPT ![u] = "finished"]
    /\ fut' = [fut EXCEPT ![u] = [index |-> IndexArg(u), val |-> val, exc |-> FALSE]]
    /\ outcome' = [outcome EXCEPT ![u] = how]

\* "if self.cache:" self.cache is None unless use_cache was given
HasCacheAlways == TRUE
HasCache == cfg.use_cache

\* _translate_single_indexed up to the cache lookup: the lookup raises
WorkerCacheGetRaises(u) ==
    /\ CanStart(u)
    /\ HasCache /\ cfg.cache_faulty
    /\ outcome' = [outcome EXCEPT ![u] = "cache_read_error"]
    /\ IF pc = "seq"
       THEN /\ pc' = "error"
            /\ UNCHANGED << ust, fut >>
       ELSE /\ ust' = [ust EXCEPT ![u] = "finished"]
            /\ fut' = [fut EXCEPT ![u] = [index |-> IndexArg(u), val |-> NoneVal,
                                          exc |-> TRUE]]
            /\ pc' = pc
    /\ UNCHANGED << cfg, source_lang, data, copy, result_ref, existing_data,
                    translated_data, outFile, string_data, translated_strings,
                    slot_writes,
                    bst, bres, cache, cache_hits, translation_count, calls,
                    run, prev, codecVars, sideVars >>

\* _translate_single_indexed up to the cache lookup: hit or miss
WorkerCacheGet(u) ==
    /\ CanStart(u)
    /\ LET cached == IF HasCache
                     THEN CacheGet(cache, TextOf(u), source_lang, cfg.target_lang)
                     ELSE NoneVal
       IN  IF HasCache /\ CachedTruthy(cached)
           THEN /\ cache_hits' = Incremented(cache_hits)
                /\ Finish(u, cached, "hit")
           ELSE /\ ust' = [ust EXCEPT ![u] = "running"]
                /\ UNCHANGED << cache_hits, fut, outcome >>
    /\ UNCHANGED << cfg, source_lang, pc, data, copy, result_ref, existing_data,
                    translated_data, outFile, string_data, translated_strings,
                    slot_writes,
                    bst, bres, cache, translation_count, calls, run, prev,
                    codecVars, sideVars >>

\* the backend call fails: the except branch returns the original text
WorkerBackendFails(u) ==
    /\ pc \in {"seq", "flat", "super"}
    /\ ust[u] = "running"
    /\ calls' = [calls EXCEPT ![u] = @ + 1]
    /\ Finish(u, Fallback(TextOf(u)), "backend_failed")
    /\ cache' = CacheAfterFailure(cache, TextOf(u), source_lang, cfg.target_lang)
    /\ UNCHANGED << cfg, source_lang, pc, data, copy, result_ref, existing_data,
                    translated_data, outFile, string_data, translated_strings,
                    slot_writes,
                    bst, bres, cache_hits, translation_count, run, prev,
                    codecVars, sideVars >>

\* the backend call succeeds, and so does the cache write if there is one
WorkerTranslate(u) ==
    /\ pc \in {"seq", "flat", "super"}
    /\ ust[u] = "running"
    /\ calls' = [calls EXCEPT ![u] = @ + 1]
    /\ LET translated == Translated(TextOf(u), cfg.glossary)
       IN  /\ cache' = IF HasCache
                       THEN CacheSet(cache, CacheKeyText(TextOf(u)), source_lang,
                                     cfg.target_lang, translated)
                       ELSE cache
           /\ Finish(u, translated, "ok")
    /\ translation_count' = Incremented(translation_count)
    /\ UNCHANGED << cfg, source_lang, pc, data, copy, result_ref, existing_data,
                    translated_data, outFile, string_data, translated_strings,
                    slot_writes,
                    bst, bres, cache_hits, run, prev, codecVars, sideVars >>

\* the backend call succeeds and cache.set raises: the except branch
WorkerCacheSetRaises(u) ==
    /\ pc \in {"seq", "flat", "super"}
    /\ ust[u] = "running"
    /\ HasCache /\ cfg.cache_faulty
    /\ calls' = [calls EXCEPT ![u] = @ + 1]
    /\ Finish(u, Fallback(TextOf(u)), "cache_write_error")
    /\ UNCHANGED << cfg, source_lang, pc, data, copy, result_ref, existing_data,
                    translated_data, outFile, string_data, translated_strings,
                    slot_writes,
                    bst, bres, cache, cache_hits, translation_count, run, prev,
                    codecVars, sideVars >>

AllCollected(S) == \A u \in S : ust[u] = "collected"

\* the sequential loop and the flat pool's as_completed loop store a result
Collect(u) ==
    /\ pc \in {"seq", "flat"}
    /\ ust[u] = "finished"
    /\ ust' = [ust EXCEPT ![u] = "collected"]
    /\ translated_strings' =
          IF pc = "seq" THEN SetSlot(translated_strings, u - 1, fut[u].val)
          ELSE IF fut[u].exc
          THEN SetSlot(translated_strings, u - 1, TextOf(u))
          ELSE SetSlot(translated_strings, fut[u].index, fut[u].val)
    /\ slot_writes' =
          CountSlot(slot_writes,
                    IF pc = "seq" \/ fut[u].exc THEN u - 1 ELSE fut[u].index)
    /\ pc' = IF AllCollected(Units \ {u}) THEN "writeback" ELSE pc
    /\ UNCHANGED << cfg, source_lang, data, copy, result_ref, existing_data,
                    translated_data, outFile, string_data, fut, bst, bres, cache,
                    cache_hits, translation_count, outcome, calls, run, prev,
                    codecVars, sideVars >>

\* the outer pool starts _process_super_batch for the next chunk
BatchStart(b) ==
    /\ pc = "super"
    /\ Lowest({x \in Batches : bst[x] = "queued"}, b)
    /\ Cardinality({x \in Batches : bst[x] = "running"})
          < SuperPoolSize(Len(bst))
    /\ bst' = [bst EXCEPT ![b] = "running"]
    /\ UNCHANGED << cfg, source_lang, pc, data, copy, result_ref, existing_data,
                    translated_data, outFile, string_data, translated_strings,
                    slot_writes,
                    ust, fut, bres, cache, cache_hits, translation_count,
                    outcome, calls, run, prev, codecVars, sideVars >>

\* _process_super_batch's as_completed loop appends a result
BatchCollect(u) ==
    /\ pc = "super"
    /\ ust[u] = "finished"
    /\ ust' = [ust EXCEPT ![u] = "collected"]
    /\ bres' = [bres EXCEPT ![BatchOf(u)] =
                   Append(@, IF fut[u].exc
                             THEN [index |-> u - 1, val |-> TextOf(u)]
                             ELSE [index |-> fut[u].index, val |-> fut[u].val])]
    /\ UNCHANGED << cfg, source_lang, pc, data, copy, result_ref, existing_data,
                    translated_data, outFile, string_data, translated_strings,
                    slot_writes,
                    fut, bst, cache, cache_hits, translation_count, outcome,
                    calls, run, prev, codecVars, sideVars >>

\* _process_super_batch returns its results
BatchReturn(b) ==
    /\ pc = "super"
    /\ bst[b] = "running"
    /\ AllCollected(UnitsOf(b))
    /\ bst' = [bst EXCEPT ![b] = "done"]
    /\ UNCHANGED << cfg, source_lang, pc, data, copy, result_ref, existing_data,
                    translated_data, outFile, string_data, translated_strings,
                    slot_writes,
                    ust, fut, bres, cache, cache_hits, translation_count,
                    outcome, calls, run, prev, codecVars, sideVars >>

RECURSIVE StoreBatch(_, _, _)
\* for idx, translated in batch_results: translated_strings[idx] = translated
StoreBatch(ts, results, k) ==
    IF k > Len(results) THEN ts
    ELSE Bind(SetSlot(ts, results[k].index, results[k].val),
              LAMBDA stored : StoreBatch(stored, results, k + 1))

RECURSIVE CountBatch(_, _, _)
CountBatch(sw, results, k) ==
    IF k > Len(results) THEN sw
    ELSE Bind(CountSlot(sw, results[k].index),
              LAMBDA counted : CountBatch(counted, results, k + 1))

\* the outer as_completed loop stores a finished chunk's results
SuperCollect(b) ==
    /\ pc = "super"
    /\ bst[b] = "done"
    /\ bst' = [bst EXCEPT ![b] = "collected"]
    /\ translated_strings' = StoreBatch(translated_strings, bres[b], 1)
    /\ slot_writes' = CountBatch(slot_writes, bres[b], 1)
    /\ pc' = IF \A x \in Batches \ {b} : bst[x] = "collected"
             THEN "writeback" ELSE pc
    /\ UNCHANGED << cfg, source_lang, data, copy, result_ref, existing_data,
                    translated_data, outFile, string_data, ust, fut, bres, cache,
                    cache_hits, translation_count, outcome, calls, run, prev,
                    codecVars, sideVars >>

\* "Apply translations back to the data structure", and the return
TJ_WriteBack ==
    /\ pc = "writeback"
    /\ LET written == WriteBack(Obj(result_ref), string_data, translated_strings)
       IN  /\ IF result_ref = "data"
              THEN data' = written /\ copy' = copy
              ELSE copy' = written /\ data' = data
           /\ translated_data' = written
    /\ pc' = Returned
    /\ UNCHANGED << cfg, source_lang, result_ref, existing_data, outFile,
                    passVars, cache, cache_hits, translation_count, run, prev,
                    codecVars, sideVars >>

(***************************************************************************)
(* translate_file.                                                         *)
(***************************************************************************)
tjVars == << copy, result_ref, translated_data, string_data, translated_strings,
             slot_writes,
             ust, fut, bst, bres, cache, cache_hits, translation_count,
             outcome, calls, run, prev >>

\* the input is read; in diff mode an existing output is loaded
F_Read ==
    /\ pc = "f_read"
    /\ existing_data' = IF cfg.diff_mode /\ outFile # NoFile THEN outFile ELSE Null
    /\ pc' = "f_detect"
    /\ UNCHANGED << cfg, source_lang, data, outFile, tjVars, codecVars, sideVars >>

\* source_lang is not "auto": nothing to detect
F_NoDetect ==
    /\ pc = "f_detect"
    /\ source_lang # "auto"
    /\ pc' = "f_init"
    /\ UNCHANGED << cfg, source_lang, data, fileVars, tjVars, codecVars, sideVars >>

\* self.source_lang = detected_lang: the detector's answer for the documents
\* of the model
DetectedLangUnset == "auto"
DetectedLang == "en"

\* detect_language succeeds and replaces "auto"
F_Detect ==
    /\ pc = "f_detect"
    /\ source_lang = "auto"
    /\ collect_strings(data, << >>) # << >>
    /\ source_lang' = DetectedLang
    /\ pc' = "f_init"
    /\ UNCHANGED << cfg, data, fileVars, tjVars, codecVars, sideVars >>

\* where the ValueError of detect_language leads: nothing in translate_file
\* catches it
DetectionErrorIgnored == "f_init"
DetectionError == "error"

\* detect_language raises ValueError: no text, or the detector fails
F_DetectFails ==
    /\ pc = "f_detect"
    /\ source_lang = "auto"
    /\ pc' = DetectionError
    /\ UNCHANGED << cfg, source_lang, data, fileVars, tjVars, codecVars, sideVars >>

\* _init_translator
F_Init ==
    /\ pc = "f_init"
    /\ pc' = "f_diff"
    /\ UNCHANGED << cfg, source_lang, data, fileVars, tjVars, codecVars, sideVars >>

\* _init_translator raises
F_InitFails ==
    /\ pc = "f_init"
    /\ pc' = "error"
    /\ UNCHANGED << cfg, source_lang, data, fileVars, tjVars, codecVars, sideVars >>

\* "if self.diff_mode and existing_data:"
DiffConsidered(existing) == cfg.diff_mode /\ Truthy(existing)

\* source_keys - existing_keys
NewKeys(new, existing) == get_structure(new, << >>) \ get_structure(existing, << >>)

\* no structural change: the existing translation is used
F_DiffSkip ==
    /\ pc = "f_diff"
    /\ DiffConsidered(existing_data)
    /\ NewKeys(data, existing_data) = {}
    /\ translated_data' = existing_data
    /\ pc' = "f_write"
    /\ UNCHANGED << cfg, source_lang, data, copy, result_ref, fileVars, passVars,
                    cache, cache_hits, translation_count, run, prev, codecVars, sideVars >>

\* translate_json(data) is called
F_Translate ==
    /\ pc = "f_diff"
    /\ ~(DiffConsidered(existing_data) /\ NewKeys(data, existing_data) = {})
    /\ pc' = "tj_start"
    /\ UNCHANGED << cfg, source_lang, data, fileVars, tjVars, codecVars, sideVars >>

\* json.dump(translated_data, f)
F_Write ==
    /\ pc = "f_write"
    /\ outFile' = translated_data
    /\ pc' = "done"
    /\ UNCHANGED << cfg, source_lang, data, existing_data, tjVars, codecVars, sideVars >>

(***************************************************************************)
(* A second run of the same pass by a new JSONTranslator, with the cache   *)
(* file the first run left.                                                *)
(***************************************************************************)
EveryUnitCached ==
    \A u \in Units :
        CacheGet(cache, TextOf(u), source_lang, cfg.target_lang) # NoneVal

Rerun ==
    /\ pc = "done"
    /\ cfg.twice
    /\ run = 1
    /\ run' = 2
    /\ prev' = [out |-> translated_strings, hits |-> cache_hits,
                tree |-> translated_data, cached |-> EveryUnitCached,
                clean |-> \A u \in Units : outcome[u] \in {"hit", "ok"}]
    /\ pc' = "tj_start"
    /\ copy' = Null
    /\ result_ref' = "none"
    /\ translated_data' = Null
    /\ cache_hits' = 0
    /\ translation_count' = 0
    /\ string_data' = << >> /\ translated_strings' = << >>
    /\ slot_writes' = << >>
    /\ ust' = << >> /\ fut' = << >> /\ bst' = << >> /\ bres' = << >>
    /\ outcome' = << >> /\ calls' = << >>
    /\ UNCHANGED << cfg, source_lang, data, fileVars, cache, codecVars, sideVars >>

\* the steps of the units and of the chunks, for any unit or chunk
UnitCacheGetRaises == \E u \in Units : WorkerCacheGetRaises(u)
UnitCacheGet == \E u \in Units : WorkerCacheGet(u)
UnitBackendFails == \E u \in Units : WorkerBackendFails(u)
UnitTranslate == \E u \in Units : WorkerTranslate(u)
UnitCacheSetRaises == \E u \in Units : WorkerCacheSetRaises(u)
UnitCollect == \E u \in Units : Collect(u)
UnitBatchCollect == \E u \in Units : BatchCollect(u)
ChunkStart == \E b \in Batches : BatchStart(b)
ChunkReturn == \E b \in Batches : BatchReturn(b)
ChunkCollect == \E b \in Batches : SuperCollect(b)

Next ==
    \/ TJ_Begin
    \/ UnitCacheGetRaises
    \/ UnitCacheGet
    \/ UnitBackendFails
    \/ UnitTranslate
    \/ UnitCacheSetRaises
    \/ UnitCollect
    \/ UnitBatchCollect
    \/ ChunkStart
    \/ ChunkReturn
    \/ ChunkCollect
    \/ TJ_WriteBack
    \/ F_Read
    \/ F_NoDetect
    \/ F_Detect
    \/ F_DetectFails
    \/ F_Init
    \/ F_InitFails
    \/ F_DiffSkip
    \/ F_Translate
    \/ F_Write
    \/ Rerun

Spec == Init /\ [][Next]_vars

(***************************************************************************)
(* The pass with progress: the main thread and every worker thread that    *)
(* can take a step eventually takes one, and a backend call that was made  *)
(* eventually returns or raises.                                           *)
(***************************************************************************)
SpecLive == Init /\ [][Next]_vars /\ WF_vars(Next)

(***************************************************************************)
(* The pass where a thread may fail to start.  _process_super_batch then   *)
(* raises at its first executor.submit: leaving the with block waits for   *)
(* no thread, and none of the chunk's units is ever called.                *)
(***************************************************************************)
\* _process_super_batch raises
ChunkRaises ==
    \E b \in Batches :
        /\ pc = "super"
        /\ bst[b] = "running"
        /\ \A u \in UnitsOf(b) : ust[u] = "queued"
        /\ bst' = [bst EXCEPT ![b] = "failed"]
        /\ UNCHANGED << cfg, source_lang, pc, data, copy, result_ref,
                        existing_data, translated_data, outFile, string_data,
                        translated_strings, slot_writes, ust, fut, bres, cache,
                        cache_hits, translation_count, outcome, calls, run,
                        prev, codecVars, sideVars >>

\* the outer as_completed loop: future.result() raises, the except branch
\* reports the chunk and stores nothing
ChunkDropped ==
    \E b \in Batches :
        /\ pc = "super"
        /\ bst[b] = "failed"
        /\ bst' = [bst EXCEPT ![b] = "collected"]
        /\ pc' = IF \A x \in Batches \ {b} : bst[x] = "collected"
                 THEN "writeback" ELSE pc
        /\ UNCHANGED << cfg, source_lang, data, copy, result_ref,
                        existing_data, translated_data, outFile, string_data,
                        translated_strings, slot_writes, ust, fut, bres, cache,
                        cache_hits, translation_count, outcome, calls, run,
                        prev, codecVars, sideVars >>

NextPool == Next \/ ChunkRaises \/ ChunkDropped

SpecPool == Init /\ [][NextPool]_vars

(***************************************************************************)
(* The codec on its own: extract, an identity step in place of the         *)
(* translation, restore.                                                   *)
(***************************************************************************)
CodecPieces ==
    { <<"{", "{", "n", "}", "}">>, <<"{", "0", "}">>, <<"{", "n", "}">>,
      <<"%", "s">>, <<"%", "(", "n", ")", "s">>, <<"$", "{", "n", "}">>,
      <<"[", "[", "n", "]", "]">>, <<"[", "[">>, <<"]", "]">>,
      <<"h">>, <<" ">>, <<"{">>, <<"}">>, <<"__PLACEHOLDER_0__">> }

RECURSIVE Flatten(_)
Flatten(ps) == IF ps = << >> THEN << >> ELSE Head(ps) \o Flatten(Tail(ps))

CodecInputs ==
    {Flatten(ps) : ps \in UNION {[1..n -> CodecPieces] : n \in 0..MaxPieces}}

InitCodec ==
    /\ cfg = CHOOSE c \in Scenarios : TRUE
    /\ source_lang = "en"
    /\ pc = "codec"
    /\ data = Null /\ copy = Null /\ result_ref = "none"
    /\ existing_data = Null /\ translated_data = Null /\ outFile = NoFile
    /\ cache = {} /\ cache_hits = 0 /\ translation_count = 0
    /\ run = 1 /\ prev = NoPrev
    /\ PassReset
    /\ cpc = "input"
    /\ ctext \in CodecInputs
    /\ cmasked = << >> /\ cplaceholders = << >> /\ cout = << >>
    /\ CacheApiIdle
    /\ CliIdle
    /\ ThreadsIdle

pipelineVars == << cfg, source_lang, pc, data, copy, result_ref, existing_data,
                   translated_data, outFile, passVars, cache, cache_hits,
                   translation_count, run, prev >>

CodecExtract ==
    /\ cpc = "input"
    /\ LET ex == extract_placeholders(ctext)
       IN  cmasked' = ex.text /\ cplaceholders' = ex.placeholders
    /\ cpc' = "extracted"
    /\ UNCHANGED << ctext, cout, pipelineVars, sideVars >>

CodecRestore ==
    /\ cpc = "extracted"
    /\ cout' = restore_placeholders(cmasked, cplaceholders)
    /\ cpc' = "restored"
    /\ UNCHANGED << ctext, cmasked, cplaceholders, pipelineVars, sideVars >>

NextCodec == CodecExtract \/ CodecRestore

SpecCodec == InitCodec /\ [][NextCodec]_vars

(***************************************************************************)
(* The codec with a backend between extract and restore that may drop      *)
(* markers and move them: lines 415 to 423 of _translate_single_indexed.   *)
(***************************************************************************)
\* what translator.translate(processed) may return: the translation with
\* its markers in any order and any of them left out
BackendOutputs(processed) ==
    LET P == {k \in 1..Len(processed) : processed[k] \in Markers}
        t == BackendTranslate(processed)
        perms == {f \in [P -> P] : \A a, b \in P : a # b => f[a] # f[b]}
        moved(f) == [k \in 1..Len(t) |-> IF k \in P THEN t[f[k]] ELSE t[k]]
        kept(D) == {k \in 1..Len(t) : k \notin D}
        nth(D, i) == CHOOSE k \in kept(D) :
                         Cardinality({j \in kept(D) : j < k}) = i - 1
    IN  {[i \in 1..Cardinality(kept(D)) |-> moved(f)[nth(D, i)]] :
            f \in perms, D \in SUBSET P}

\* translated = translator.translate(processed)
CodecBackend ==
    /\ cpc = "extracted"
    /\ cmasked' \in BackendOutputs(cmasked)
    /\ cpc' = "translated"
    /\ UNCHANGED << ctext, cplaceholders, cout, pipelineVars, sideVars >>

\* if placeholders: translated = self._restore_placeholders(translated, placeholders)
CodecUnitRestore ==
    /\ cpc = "translated"
    /\ cout' = IF cplaceholders # << >>
               THEN restore_placeholders(cmasked, cplaceholders)
               ELSE cmasked
    /\ cpc' = "unit_restored"
    /\ UNCHANGED << ctext, cmasked, cplaceholders, pipelineVars, sideVars >>

NextBackend == CodecExtract \/ CodecBackend \/ CodecUnitRestore

SpecBackend == InitCodec /\ [][NextBackend]_vars

(***************************************************************************)
(* The cache on its own: TranslationCache.set and TranslationCache.get     *)
(* called in any order on an empty table.  A set is one INSERT OR REPLACE  *)
(* statement on an autocommit connection, so calls of several threads      *)
(* take effect one after the other.                                        *)
(***************************************************************************)
MaxSets == 2

CacheTexts == { CollidingA, CollidingB, <<"h", "i">> }
CacheSources == { "en", "fr" }
CacheTargets == { "es", "fr" }
CacheValues == { <<"o", "k">>, <<"H", "I">> }

InitCache ==
    /\ cfg = CHOOSE c \in Scenarios : TRUE
    /\ source_lang = "en"
    /\ pc = "cache"
    /\ data = Null /\ copy = Null /\ result_ref = "none"
    /\ existing_data = Null /\ translated_data = Null /\ outFile = NoFile
    /\ cache = {} /\ cache_hits = 0 /\ translation_count = 0
    /\ run = 1 /\ prev = NoPrev
    /\ PassReset
    /\ CodecIdle
    /\ CacheApiIdle
    /\ CliIdle
    /\ ThreadsIdle

cacheApiFrame == << cfg, source_lang, pc, data, copy, result_ref, existing_data,
                    translated_data, outFile, passVars, cache_hits,
                    translation_count, run, prev, codecVars, threadVars, cli >>

\* TranslationCache.set(text, source_lang, target_lang, translated_text)
ApiSet ==
    /\ pc = "cache"
    /\ Len(sets) < MaxSets
    /\ \E text \in CacheTexts, src \in CacheSources, tgt \in CacheTargets,
          value \in CacheValues :
          /\ cache' = CacheSet(cache, text, src, tgt, value)
          /\ sets' = Append(sets, [text |-> text, src |-> src, tgt |-> tgt,
                                   value |-> value])
    /\ got' = NoGet
    /\ UNCHANGED cacheApiFrame

\* TranslationCache.get(text, source_lang, target_lang)
ApiGet ==
    /\ pc = "cache"
    /\ \E text \in CacheTexts, src \in CacheSources, tgt \in CacheTargets :
          got' = [text |-> text, src |-> src, tgt |-> tgt,
                  result |-> CacheGet(cache, text, src, tgt), made |-> TRUE]
    /\ UNCHANGED << cache, sets, cacheApiFrame >>

NextCache == ApiSet \/ ApiGet

SpecCache == InitCache /\ [][NextCache]_vars

(***************************************************************************)
(* The threads on their own: the pools' worker threads, the identifiers    *)
(* threading.get_ident() gives them, and the per-thread backend clients    *)
(* and cache connections of _get_translator and _get_connection.  What the *)
(* units are translated to is left out.  An identifier is unique among the *)
(* live threads and may be given again after its thread has ended; which   *)
(* one the system gives is not determined, and identifiers being           *)
(* interchangeable, the lowest one of a dead thread and the lowest one     *)
(* never given stand for all.                                              *)
(***************************************************************************)
MaxIdents == 8
MainIdent == 1
ThreadIds == 1..MaxIdents

\* thread_id = threading.get_ident(): the key of the thread's dict entries
ThreadKeyShared(ident) == MainIdent
ThreadKey(ident) == ident

ThreadScenarios ==
    {c \in Scenarios : /\ c.entry = "json" /\ c.doc = DocList
                       /\ c.glossary = << >> /\ c.cache0 = {}
                       /\ ~c.cache_faulty /\ ~c.twice}

NewThread(ident, role, pool) ==
    [ident |-> ident, role |-> role, pool |-> pool, task |-> 0,
     client |-> 0, first_client |-> 0, made_clients |-> 0,
     conn |-> 0, first_conn |-> 0, made_conns |-> 0]

InitThreads ==
    \E c \in ThreadScenarios :
        /\ cfg = c
        /\ source_lang = c.source_lang
        /\ string_data = collect_all_strings(c.doc)
        /\ pc = Mode(Len(string_data))
        /\ data = c.doc /\ copy = c.doc /\ result_ref = DeepCopyRef
        /\ existing_data = Null /\ translated_data = Null /\ outFile = NoFile
        /\ translated_strings = [i \in 1..Len(string_data) |-> NoneVal]
        /\ slot_writes = [i \in 1..Len(string_data) |-> 0]
        /\ ust = [i \in 1..Len(string_data) |-> "queued"]
        /\ fut = [i \in 1..Len(string_data) |-> NoFuture]
        /\ outcome = [i \in 1..Len(string_data) |-> "none"]
        /\ calls = [i \in 1..Len(string_data) |-> 0]
        /\ bst = IF pc = "super"
                 THEN [b \in 1..NumBatches(Len(string_data)) |-> "queued"]
                 ELSE << >>
        /\ bres = [b \in 1..Len(bst) |-> << >>]
        /\ cache = {} /\ cache_hits = 0 /\ translation_count = 0
        /\ run = 1 /\ prev = NoPrev
        /\ CodecIdle
        /\ CacheApiIdle
        /\ CliIdle
        /\ threads = {NewThread(MainIdent, "main", 0)}
        /\ translators = {} /\ connections = {}
        /\ seen = {MainIdent}

threadFrame == << cfg, source_lang, data, copy, result_ref, existing_data,
                  translated_data, outFile, string_data, translated_strings,
                  slot_writes, fut, bres, cache, cache_hits, translation_count,
                  calls, run, prev, codecVars, sets, got, cli >>

Lowest2(S) == CHOOSE x \in S : \A y \in S : x <= y

\* the identifiers a thread that starts now may get
NewIdents ==
    LET live == {t.ident : t \in threads}
        recycled == seen \ live
        fresh == ThreadIds \ seen
    IN  (IF recycled = {} THEN {} ELSE {Lowest2(recycled)})
        \cup (IF fresh = {} THEN {} ELSE {Lowest2(fresh)})

\* _get_connection by thread t: the thread's entry is made if there is none
WithConnection(t) ==
    [t EXCEPT !.conn = ThreadKey(t.ident),
              !.first_conn = IF @ = 0 THEN ThreadKey(t.ident) ELSE @,
              !.made_conns = IF ThreadKey(t.ident) \in connections THEN @ ELSE @ + 1]

\* _get_translator by thread t: the thread's entry is made if there is none
WithTranslator(t) ==
    [t EXCEPT !.client = ThreadKey(t.ident),
              !.first_client = IF @ = 0 THEN ThreadKey(t.ident) ELSE @,
              !.made_clients = IF ThreadKey(t.ident) \in translators THEN @ ELSE @ + 1]

\* the pool that has the unit's task: the chunk's pool, 0 for the flat pool
\* and the sequential loop
PoolOf(u) == IF pc = "super" THEN BatchOf(u) ELSE 0

Workers(pool) == {t \in threads : t.role = "worker" /\ t.pool = pool}

\* the threads that may take the unit's task now: the main thread in the
\* sequential loop; in a pool an idle worker, or a new worker if none is
\* idle and the pool is not full
Takers(u) ==
    IF pc = "seq"
    THEN {t \in threads : t.role = "main" /\ t.task = 0
                          /\ \A v \in Units : v < u => ust[v] = "finished"}
    ELSE IF pc = "super" /\ bst[BatchOf(u)] # "running" THEN {}
    ELSE LET idle == {t \in Workers(PoolOf(u)) : t.task = 0}
         IN  IF idle # {} THEN idle
             ELSE IF Cardinality(Workers(PoolOf(u))) < cfg.max_workers
             THEN {NewThread(i, "worker", PoolOf(u)) : i \in NewIdents}
             ELSE {}

ThreadOf(u) == CHOOSE t \in threads : t.task = u

\* a thread takes the next task of its pool's queue and begins
\* _translate_single_indexed: the cache lookup if there is a cache,
\* _get_translator if there is none
ThreadTake ==
    \E u \in Units :
        /\ pc \in {"seq", "flat", "super"}
        /\ ust[u] = "queued"
        /\ \A v \in Units : (v < u /\ PoolOf(v) = PoolOf(u)) => ust[v] # "queued"
        /\ \E t \in Takers(u) :
              LET busy == [t EXCEPT !.task = u]
              IN  /\ threads' = (threads \ {t})
                        \cup {IF cfg.use_cache THEN WithConnection(busy)
                              ELSE WithTranslator(busy)}
                  /\ seen' = seen \cup {t.ident}
                  /\ connections' = IF cfg.use_cache
                                    THEN connections \cup {ThreadKey(t.ident)}
                                    ELSE connections
                  /\ translators' = IF cfg.use_cache THEN translators
                                    ELSE translators \cup {ThreadKey(t.ident)}
        /\ ust' = [ust EXCEPT ![u] = IF cfg.use_cache THEN "lookup" ELSE "running"]
        /\ UNCHANGED << pc, bst, outcome, threadFrame >>

\* the lookup finds an entry: the task ends
ThreadHit ==
    \E u \in Units :
        /\ ust[u] = "lookup"
        /\ ust' = [ust EXCEPT ![u] = "finished"]
        /\ outcome' = [outcome EXCEPT ![u] = "hit"]
        /\ threads' = (threads \ {ThreadOf(u)}) \cup {[ThreadOf(u) EXCEPT !.task = 0]}
        /\ UNCHANGED << pc, bst, translators, connections, seen, threadFrame >>

\* the lookup finds nothing: _get_translator, and the backend is called
ThreadMiss ==
    \E u \in Units :
        /\ ust[u] = "lookup"
        /\ ust' = [ust EXCEPT ![u] = "running"]
        /\ threads' = (threads \ {ThreadOf(u)}) \cup {WithTranslator(ThreadOf(u))}
        /\ translators' = translators \cup {ThreadKey(ThreadOf(u).ident)}
        /\ UNCHANGED << pc, bst, outcome, connections, seen, threadFrame >>

\* the backend call returns: cache.set if there is a cache
ThreadCallEnds ==
    \E u \in Units :
        /\ pc \in {"seq", "flat", "super"}
        /\ ust[u] = "running"
        /\ \E t \in {x \in threads : x.task = u} :
              IF cfg.use_cache
              THEN /\ ust' = [ust EXCEPT ![u] = "storing"]
                   /\ threads' = (threads \ {t}) \cup {WithConnection(t)}
                   /\ connections' = connections \cup {ThreadKey(t.ident)}
                   /\ UNCHANGED outcome
              ELSE /\ ust' = [ust EXCEPT ![u] = "finished"]
                   /\ outcome' = [outcome EXCEPT ![u] = "ok"]
                   /\ threads' = (threads \ {t}) \cup {[t EXCEPT !.task = 0]}
                   /\ UNCHANGED connections
        /\ UNCHANGED << pc, bst, translators, seen, threadFrame >>

\* the backend call raises: the task ends
ThreadCallFails ==
    \E u \in Units :
        /\ pc \in {"seq", "flat", "super"}
        /\ ust[u] = "running"
        /\ \E t \in {x \in threads : x.task = u} :
              threads' = (threads \ {t}) \cup {[t EXCEPT !.task = 0]}
        /\ ust' = [ust EXCEPT ![u] = "finished"]
        /\ outcome' = [outcome EXCEPT ![u] = "backend_failed"]
        /\ UNCHANGED << pc, bst, translators, connections, seen, threadFrame >>

\* cache.set is done: the task ends
ThreadStored ==
    \E u \in Units :
        /\ ust[u] = "storing"
        /\ ust' = [ust EXCEPT ![u] = "finished"]
        /\ outcome' = [outcome EXCEPT ![u] = "ok"]
        /\ threads' = (threads \ {ThreadOf(u)}) \cup {[ThreadOf(u) EXCEPT !.task = 0]}
        /\ UNCHANGED << pc, bst, translators, connections, seen, threadFrame >>

Outers == {t \in threads : t.role = "outer"}

\* a thread of the outer pool begins _process_super_batch for the next chunk
ThreadChunkBegin ==
    \E b \in Batches :
        /\ pc = "super"
        /\ bst[b] = "queued"
        /\ \A x \in Batches : x < b => bst[x] # "queued"
        /\ \E t \in (IF {x \in Outers : x.pool = 0} # {}
                     THEN {x \in Outers : x.pool = 0}
                     ELSE IF Cardinality(Outers) < SuperPoolSize(Len(bst))
                     THEN {NewThread(i, "outer", 0) : i \in NewIdents}
                     ELSE {}) :
              /\ threads' = (threads \ {t}) \cup {[t EXCEPT !.pool = b]}
              /\ seen' = seen \cup {t.ident}
        /\ bst' = [bst EXCEPT ![b] = "running"]
        /\ UNCHANGED << pc, ust, outcome, translators, connections, threadFrame >>

\* _process_super_batch returns: leaving its with block ends the threads of
\* the chunk's pool
ThreadChunkEnd ==
    \E b \in Batches :
        /\ pc = "super"
        /\ bst[b] = "running"
        /\ \A u \in UnitsOf(b) : ust[u] = "finished"
        /\ threads' = {IF t.role = "outer" /\ t.pool = b
                       THEN [t EXCEPT !.pool = 0] ELSE t :
                       t \in threads \ Workers(b)}
        /\ bst' = [bst EXCEPT ![b] = "done"]
        /\ UNCHANGED << pc, ust, outcome, translators, connections, seen,
                        threadFrame >>

\* the dispatch is over: leaving the with block ends the pool's threads
ThreadPoolEnd ==
    /\ pc \in {"seq", "flat", "super"}
    /\ \A u \in Units : ust[u] = "finished"
    /\ \A b \in Batches : bst[b] = "done"
    /\ threads' = {t \in threads : t.role = "main"}
    /\ pc' = "writeback"
    /\ UNCHANGED << ust, bst, outcome, translators, connections, seen,
                    threadFrame >>

NextThreads ==
    \/ ThreadTake \/ ThreadHit \/ ThreadMiss \/ ThreadCallEnds
    \/ ThreadCallFails \/ ThreadStored \/ ThreadChunkBegin \/ ThreadChunkEnd
    \/ ThreadPoolEnd

SpecThreads == InitThreads /\ [][NextThreads]_vars

(***************************************************************************)
(* main on its own: the loop over args.target.  What a pass does is left   *)
(* out: translate_file returns, or raises one of its errors.               *)
(***************************************************************************)
MaxTargets == 3
TargetLangs == {"es", "fr", "de"}
PassErrors == {"input", "detection", "init"}

InitMain ==
    /\ cfg = CHOOSE c \in Scenarios : TRUE
    /\ source_lang = "en"
    /\ pc = "main"
    /\ data = Null /\ copy = Null /\ result_ref = "none"
    /\ existing_data = Null /\ translated_data = Null /\ outFile = NoFile
    /\ cache = {} /\ cache_hits = 0 /\ translation_count = 0
    /\ run = 1 /\ prev = NoPrev
    /\ PassReset
    /\ CodecIdle
    /\ CacheApiIdle
    /\ ThreadsIdle
    /\ \E n \in 1..MaxTargets :
          \E t \in [1..n -> TargetLangs] :
              cli = [targets |-> t, i |-> 1, saved |-> << >>, failed |-> << >>,
                     rc |-> "running"]

mainFrame == << pipelineVars, codecVars, sets, got, threadVars >>

\* translator.translate_file(input_path, output_path) returns: the loop goes
\* on to the next target language
MainPass ==
    /\ cli.rc = "running"
    /\ cli.i <= Len(cli.targets)
    /\ cli' = [cli EXCEPT !.saved = Append(@, cli.targets[cli.i]), !.i = @ + 1]
    /\ UNCHANGED mainFrame

\* translate_file (or the constructor) raises: the try block is around the
\* whole loop, so the handler prints the error and main returns 1
MainPassRaises ==
    /\ cli.rc = "running"
    /\ cli.i <= Len(cli.targets)
    /\ \E e \in PassErrors :
          cli' = [cli EXCEPT !.failed = Append(@, [lang |-> cli.targets[cli.i],
                                                    error |-> e]),
                             !.rc = "1"]
    /\ UNCHANGED mainFrame

\* the loop is over: "All translations completed successfully!", return 0
MainReturn ==
    /\ cli.rc = "running"
    /\ cli.i > Len(cli.targets)
    /\ cli' = [cli EXCEPT !.rc = "0"]
    /\ UNCHANGED mainFrame

NextMain == MainPass \/ MainPassRaises \/ MainReturn

SpecMain == InitMain /\ [][NextMain]_vars

(***************************************************************************)
(* Properties.                                                             *)
(***************************************************************************)
\* the pass has its results: the write-back is next or done
Dispatched == pc \in {"writeback", "f_write", "done"} /\ N > 0
\* translate_json has returned translated_data
TJReturned == result_ref # "none" /\ pc \in {"f_write", "done"}

Contains(s, sub) == \E i \in 1..Len(s) : OccursAt(s, sub, i)

RECURSIVE LeafPaths(_, _)
RECURSIVE LeafPathsKids(_, _, _)
\* the routes (key and index steps) to the leaves of a tree: the scalars and
\* the empty containers
LeafPaths(obj, path) ==
    IF obj.tag \in {"dict", "list"} /\ Len(obj.kids) > 0
    THEN LeafPathsKids(obj, path, 1)
    ELSE {path}

LeafPathsKids(obj, path, k) ==
    IF k > Len(obj.kids) THEN {}
    ELSE LeafPaths(obj.kids[k],
                   Append(path, IF obj.tag = "dict" THEN DictStep(obj.keys[k])
                                ELSE ListStep(k - 1)))
         \cup LeafPathsKids(obj, path, k + 1)

UnitPaths == {string_data[u].path : u \in Units}

\* C1: once the workers of a pass are through, the result list has one slot
\* per unit, unit i is the i-th non-blank string leaf of the input, and slot i
\* holds what the call for unit i gave (the unit's text where the call raised),
\* in every dispatch mode and whatever the order of completion.
C1_OrderPreserved ==
    Dispatched =>
        /\ Len(translated_strings) = N
        /\ \A u \in Units :
              /\ NodeAt(cfg.doc, string_data[u].path) = Str(TextOf(u))
              /\ translated_strings[u] =
                    IF fut[u].exc THEN TextOf(u) ELSE fut[u].val

\* two-level mode, and inside a chunk a later unit finished before an earlier one
C1_Witness ==
    /\ pc = "writeback"
    /\ Len(bst) >= 2
    /\ \E b \in Batches :
          /\ Len(bres[b]) >= 2
          /\ bres[b][1].index > bres[b][2].index
    /\ \A u \in Units : translated_strings[u] = fut[u].val

\* what a unit's result is when its own backend call did not fail: the entry
\* the cache held before the pass if there was a usable one, the translation
\* otherwise
ExpectedResult(u) ==
    LET before == CacheGet(cfg.cache0, TextOf(u), source_lang, cfg.target_lang)
    IN  IF cfg.use_cache /\ CachedTruthy(before) THEN before
        ELSE Translated(TextOf(u), cfg.glossary)

\* C2: a unit whose backend call failed gets its original text; every unit
\* answered by the backend or by the cache gets the result it gets when no
\* call fails; no unit is left out; and a backend failure never ends the pass
\* with an error.
C2_FailOpenIsolation ==
    /\ Dispatched =>
          \A u \in Units :
              /\ outcome[u] # "none"
              /\ translated_strings[u] # NoneVal
              /\ outcome[u] = "backend_failed" => translated_strings[u] = TextOf(u)
              /\ outcome[u] \in {"ok", "hit"} => translated_strings[u] = ExpectedResult(u)
    /\ (pc = "error" /\ N > 0) => \E u \in Units : outcome[u] = "cache_read_error"

\* two units with the same text: the backend failed for the first and
\* answered for the second
C2_Witness ==
    /\ pc = "writeback"
    /\ \E u, v \in Units :
          /\ u < v /\ TextOf(u) = TextOf(v)
          /\ outcome[u] = "backend_failed" /\ outcome[v] = "ok"
          /\ translated_strings[u] = TextOf(u)
          /\ translated_strings[v] # TextOf(v)

\* C3: a second run with the same input and configuration and the cache the
\* first run left gives the same output and at least as many cache hits, and
\* makes no backend call if every unit had a cache entry after the first run
\* (stated for two runs in which no backend call and no cache access failed).
C3_IdempotentCache ==
    (/\ run = 2 /\ pc = "done" /\ prev.clean
     /\ \A u \in Units : outcome[u] \in {"hit", "ok"})
    => /\ translated_strings = prev.out
       /\ cache_hits >= prev.hits
       /\ prev.cached => \A u \in Units : calls[u] = 0

\* every match of every pattern in s, at any position
AllMatches(s) ==
    {<<i, MatchEnd(p, s, i)>> : p \in 1..NumPatterns, i \in 1..Len(s)}
        \ {<<i, 0>> : i \in 1..Len(s)}

\* the recognized placeholders of s do not overlap, and s holds no marker
NonOverlapping(s) ==
    /\ \A a, b \in AllMatches(s) : a = b \/ a[2] < b[1] \/ b[2] < a[1]
    /\ \A k \in 1..Len(s) : s[k] \notin Markers

\* C4: restore applied to the unmodified output of extract gives back the
\* original string, for every string whose recognized placeholders do not
\* overlap.
C4_RoundTrip ==
    (cpc = "restored" /\ NonOverlapping(ctext)) => cout = ctext

\* C5: every placeholder of the source string is found verbatim in the result
\* of a unit whose backend call succeeded with every marker intact.
C5_PlaceholdersSurvive ==
    \A u \in Units :
        outcome[u] = "ok" =>
            \A k \in 1..Len(extract_placeholders(TextOf(u)).placeholders) :
                Contains(fut[u].val, extract_placeholders(TextOf(u)).placeholders[k])

PassThroughLeaf(leaf) ==
    \/ leaf.tag \in {"num", "bool", "null"}
    \/ leaf.tag = "str" /\ \A k \in 1..Len(leaf.s) : leaf.s[k] = " "

\* C6: in the returned tree every number, boolean, null and blank string is
\* the input's leaf at the same path, and no unit has such a leaf's path.
C6_PassThrough ==
    TJReturned =>
        \A path \in LeafPaths(cfg.doc, << >>) :
            PassThroughLeaf(NodeAt(cfg.doc, path)) =>
                /\ NodeAt(translated_data, path) = NodeAt(cfg.doc, path)
                /\ path \notin UnitPaths

\* the mixed document came back with a string translated
C6_Witness ==
    /\ TJReturned
    /\ cfg.doc = DocMixed
    /\ translated_data # cfg.doc
    /\ NodeAt(translated_data, << DictStep(<<"d">>), ListStep(2) >>) = Num(7)

\* C7: in diff mode with an existing output that has the source's leaf paths,
\* no backend call is made and the output written is the existing one.
C7_DiffSkip ==
    (/\ cfg.entry = "file" /\ cfg.diff_mode /\ pc # "f_read"
     /\ LeafPaths(data, << >>) = LeafPaths(existing_data, << >>))
    => /\ \A u \in Units : calls[u] = 0
       /\ pc = "done" => outFile = existing_data

\* C8: the tree passed to translate_json stays what it was.
C8_CallerTreeUnchanged == data = cfg.doc

\* translate_json has written translations into the tree it returned
C8_Witness ==
    /\ TJReturned
    /\ translated_data # cfg.doc
    /\ \E u \in Units : NodeAt(translated_data, string_data[u].path) # Str(TextOf(u))

\* C9: a cache read or write that fails leaves the unit with the backend's
\* translation and does not end the pass with an error.
C9_CacheErrorIsMiss ==
    /\ pc = "error" => \A u \in Units : outcome[u] # "cache_read_error"
    /\ Dispatched =>
          \A u \in Units :
              outcome[u] \in {"cache_read_error", "cache_write_error"}
                  => translated_strings[u] = Translated(TextOf(u), cfg.glossary)

\* C10: the returned tree holds result i at unit i's location, the empty
\* location included, and differs from the input at the units' leaves only.
C10_WriteBackReachesEveryUnit ==
    TJReturned =>
        /\ \A u \in Units :
              NodeAt(translated_data, string_data[u].path)
                  = ValueNode(translated_strings[u])
        /\ \A path \in LeafPaths(cfg.doc, << >>) \ UnitPaths :
              NodeAt(translated_data, path) = NodeAt(cfg.doc, path)

RECURSIVE TreePaths(_, _)
RECURSIVE TreePathsKids(_, _, _)
\* the routes (key and index steps) to every node below the root of a tree
TreePaths(obj, path) ==
    IF obj.tag \in {"dict", "list"} THEN TreePathsKids(obj, path, 1) ELSE {}

TreePathsKids(obj, path, k) ==
    IF k > Len(obj.kids) THEN {}
    ELSE LET step == IF obj.tag = "dict" THEN DictStep(obj.keys[k])
                     ELSE ListStep(k - 1)
         IN  {Append(path, step)}
             \cup TreePaths(obj.kids[k], Append(path, step))
             \cup TreePathsKids(obj, path, k + 1)

\* C11: the tree a file pass has written has exactly the source tree's paths,
\* also when diff mode wrote the prior output again.
C11_SameStructure ==
    (cfg.entry = "file" /\ pc = "done")
        => TreePaths(outFile, << >>) = TreePaths(cfg.doc, << >>)

\* the set calls made so far for a key, in order
SetsFor(text, src, tgt) ==
    SelectSeq(sets, LAMBDA w : w.text = text /\ w.src = src /\ w.tgt = tgt)

\* C12: after any sequence of set calls the table holds, for every key
\* (text, source language, target language) written, exactly one row of that
\* text and language pair, with the value of the last set call for the key.
C12_IdempotentOverwrite ==
    pc = "cache" =>
        \A k \in 1..Len(sets) :
            LET w == sets[k]
                mine == {r \in cache : r.original_text = w.text
                                       /\ r.source_lang = w.src
                                       /\ r.target_lang = w.tgt}
                writes == SetsFor(w.text, w.src, w.tgt)
            IN  /\ Cardinality(mine) = 1
                /\ \A r \in mine : r.translated_text = writes[Len(writes)].value

\* C13: get returns the value of the latest set call made with the same text,
\* source language and target language, and the absent result if there was
\* no such call.
C13_KeySeparation ==
    (pc = "cache" /\ got.made) =>
        LET writes == SetsFor(got.text, got.src, got.tgt)
        IN  got.result = IF writes = << >> THEN NoneVal
                         ELSE writes[Len(writes)].value

\* a unit's call has started
Started(u) == ust[u] # "queued"
\* a unit's call has ended
Ended(u) == ust[u] \in {"finished", "collected"}
\* the backend calls in flight
InFlight == {u \in Units : ust[u] = "running"}

\* C14: with max_workers = 1, whatever batch_size is, at most one backend
\* call is in flight, and a unit's call starts only when the calls of all
\* units before it have ended.
C14_SequentialAtOneWorker ==
    (cfg.max_workers = 1 /\ pc \in {"seq", "flat", "super"}) =>
        /\ Cardinality(InFlight) <= 1
        /\ \A u, v \in Units : (v < u /\ Started(u)) => Ended(v)

\* C15: the backend calls in flight are at most max_workers in the flat
\* pool and at most min(number of chunks, 4) * max_workers in two-level mode.
C15_BoundedConcurrency ==
    /\ pc = "flat" => Cardinality(InFlight) <= cfg.max_workers
    /\ pc = "super" =>
          Cardinality(InFlight)
              <= (IF Len(bst) < MaxSuperPool THEN Len(bst) ELSE MaxSuperPool)
                    * cfg.max_workers

\* five chunks, and four calls in flight at once: both pools are full
C15_Witness ==
    /\ pc = "super"
    /\ Len(bst) > MaxSuperPool
    /\ Cardinality(InFlight) = MaxSuperPool * cfg.max_workers
    /\ \E b \in Batches : bst[b] = "queued"

C17_NoUnfilledSlot ==
    pc = "writeback" =>
        \A u \in Units : Ended(u) /\ translated_strings[u] # NoneVal

\* the phase of the pass: Collecting, Dispatching and Awaiting, Reassembling,
\* Done; 0 outside a pass
Phase(p) ==
    CASE p = "tj_start" -> 1
      [] p \in {"seq", "flat", "super"} -> 2
      [] p = "writeback" -> 3
      [] p \in {"f_write", "done"} -> 4
      [] OTHER -> 0

\* C18: a pass goes through its phases in order and never back, and every
\* pass that was started reaches Done.
C18_PassProgress ==
    /\ [][(Phase(pc) \in 1..3 /\ Phase(pc') # 0) => Phase(pc') >= Phase(pc)]_vars
    /\ (pc = "tj_start") ~> (pc \in {"f_write", "done"})

UnitsWith(hows) == {u \in Units : outcome[u] \in hows}
\* the units that fell back to their original text
FellBack ==
    {u \in UnitsWith({"backend_failed", "cache_read_error", "cache_write_error"}) :
        translated_strings[u] = TextOf(u)}

C20_PerWorkerResources ==
    pc \in {"seq", "flat", "super", "writeback"} =>
        /\ \A t1, t2 \in threads :
              t1 # t2 =>
                  /\ t1.client = 0 \/ t1.client # t2.client
                  /\ t1.conn = 0 \/ t1.conn # t2.conn
        /\ \A t \in threads :
              /\ t.made_clients <= 1 /\ t.made_conns <= 1
              /\ t.client = t.first_client /\ t.conn = t.first_conn
        /\ Cardinality(translators)
              <= Cardinality({u \in Units : \/ ust[u] \in {"running", "storing"}
                                            \/ outcome[u] \in {"ok", "backend_failed"}})
        /\ Cardinality(connections)
              <= (IF cfg.use_cache
                  THEN Cardinality({u \in Units : ust[u] # "queued"}) ELSE 0)

\* two workers of different chunks' pools are in a backend call, each with
\* its client; one of them has the identifier of a thread that has ended
\* and uses the client that thread made
C20_Witness ==
    /\ pc = "super"
    /\ \E t1, t2 \in threads :
          /\ t1.role = "worker" /\ t2.role = "worker" /\ t1.pool # t2.pool
          /\ t1.task # 0 /\ t2.task # 0
          /\ ust[t1.task] = "running" /\ ust[t2.task] = "running"
          /\ t1.client # 0 /\ t2.client # 0 /\ t1.client # t2.client
          /\ t1.made_clients = 0 /\ t2.made_clients = 1

\* C21: in one pass the backend is called at most once for a unit, and the
\* step in which a unit's backend call fails leaves the cache as it was.
C21_NoRetryNoCachedFailure ==
    /\ [](\A u \in DOMAIN calls : calls[u] <= 1)
    /\ [][\A u \in DOMAIN outcome :
             (/\ u \in DOMAIN outcome'
              /\ outcome[u] # "backend_failed"
              /\ outcome'[u] = "backend_failed") => cache' = cache]_vars

\* the second run: a unit whose text has an entry with an empty translation
\* was a miss, its one backend call failed, and the entry is still there
C21_Witness ==
    /\ run = 2
    /\ \E u \in Units :
          /\ outcome[u] = "backend_failed" /\ calls[u] = 1
          /\ CacheGet(cache, TextOf(u), source_lang, cfg.target_lang) = << >>

\* C22: in diff mode with a prior output, when translate_file is about to
\* write: translate_json was not called and the prior output is what will be
\* written if and only if every leaf of the new tree is at a route (key and
\* index steps) that the prior tree has.
C22_DiffDecision ==
    (cfg.entry = "file" /\ cfg.diff_mode /\ pc = "f_write" /\ outFile # NoFile)
    => ((result_ref = "none" /\ translated_data = outFile)
        <=> LeafPaths(data, << >>)
                \subseteq ({<< >>} \cup TreePaths(outFile, << >>)))

\* C23: a file pass whose language detection failed has ended with an error:
\* as long as the source language is "auto" there is no unit, no backend
\* call, no cache write and no write of the output file, and no step follows
\* the error.
C23_DetectionFailureUntouched ==
    /\ []((cfg.entry = "file" /\ source_lang = "auto")
            => /\ pc \in {"f_read", "f_detect", "error"}
               /\ N = 0 /\ calls = << >> /\ translation_count = 0
               /\ cache = cfg.cache0)
    /\ [][(cfg.entry = "file" /\ source_lang = "auto")
             => (outFile' = outFile /\ cache' = cache)]_vars
    /\ [][pc # "error"]_vars

\* the detector raised for a document with text, and there is a prior output
C23_Witness ==
    /\ cfg.entry = "file" /\ source_lang = "auto" /\ pc = "error"
    /\ outFile # NoFile
    /\ collect_strings(data, << >>) # << >>

\* the rows the cache holds for a text and the pass's language pair
EntriesFor(text) ==
    {r \in cache : /\ r.original_text = text /\ r.source_lang = source_lang
                    /\ r.target_lang = cfg.target_lang}

\* C24: a unit whose lookup (one that did not raise) is made while the cache
\* holds an entry for its text and the language pair, whatever the stored
\* value, ends there: its result is the stored value, no backend call is
\* made for it and the cache is not written.
C24_HitShortCircuits ==
    /\ [][\A u \in DOMAIN ust :
             (/\ cfg.use_cache
              /\ u \in DOMAIN ust' /\ ust[u] = "queued" /\ ust'[u] # "queued"
              /\ outcome'[u] # "cache_read_error"
              /\ EntriesFor(TextOf(u)) # {})
             => /\ outcome'[u] = "hit"
                /\ \E r \in EntriesFor(TextOf(u)) : fut'[u].val = r.translated_text
                /\ cache' = cache]_vars
    /\ [](\A u \in DOMAIN outcome : outcome[u] = "hit" => calls[u] = 0)

\* C25: with the cache enabled, a unit whose backend call and cache write
\* succeeded has, from the moment its result is there, a cache entry under its
\* original text and the language pair that holds the result: the translation
\* after placeholder restoration and glossary.
C25_CacheHoldsReturned ==
    /\ [](cfg.use_cache =>
            \A u \in DOMAIN outcome :
                outcome[u] = "ok" =>
                    /\ fut[u].val = Translated(TextOf(u), cfg.glossary)
                    /\ \E r \in EntriesFor(TextOf(u)) :
                          r.translated_text = fut[u].val)
    /\ [][\A u \in DOMAIN outcome :
             (/\ cfg.use_cache /\ u \in DOMAIN outcome'
              /\ outcome[u] # "ok" /\ outcome'[u] = "ok")
             => CacheGet(cache', TextOf(u), source_lang, cfg.target_lang)
                    = fut'[u].val]_vars

\* a unit with a placeholder and a glossary term: its result, not yet
\* collected, is in the cache, and it is not what restoration alone gives
C25_Witness ==
    /\ cfg.use_cache /\ cfg.glossary # << >>
    /\ \E u \in Units :
          /\ outcome[u] = "ok" /\ ust[u] = "finished"
          /\ extract_placeholders(TextOf(u)).placeholders # << >>
          /\ fut[u].val # Restored(extract_placeholders(TextOf(u)))
          /\ CacheGet(cache, TextOf(u), source_lang, cfg.target_lang) = fut[u].val

\* C26: for an input that holds no marker, with n placeholders returned:
\* each of the markers 0..n-1 is exactly once in the masked text, the masked
\* text holds no other marker, and no stored placeholder holds a marker.
C26_MarkerUniqueness ==
    (/\ cpc \in {"extracted", "restored"}
     /\ \A k \in 1..Len(ctext) : ctext[k] \notin Markers)
    => /\ \A i \in 1..Len(cplaceholders) :
             Cardinality({k \in 1..Len(cmasked) : cmasked[k] = Marker(i - 1)}) = 1
       /\ \A k \in 1..Len(cmasked) :
             cmasked[k] \in Markers =>
                 \E i \in 1..Len(cplaceholders) : cmasked[k] = Marker(i - 1)
       /\ \A j \in 1..Len(cplaceholders) :
             \A k \in 1..Len(cplaceholders[j]) : cplaceholders[j][k] \notin Markers

\* the text with every marker of an index below the number of placeholders
\* replaced by the placeholder of that index, all at once
SubstituteMarkers(text, placeholders) ==
    Flatten([k \in 1..Len(text) |->
                IF \E i \in 1..Len(placeholders) : text[k] = Marker(i - 1)
                THEN placeholders[CHOOSE i \in 1..Len(placeholders) :
                                      text[k] = Marker(i - 1)]
                ELSE << text[k] >>])

\* C27: whatever markers the backend's output has left and in whatever order,
\* the unit's text after restoration is the backend's output with every
\* marker that is in it replaced by the placeholder of the same index;
\* nothing is put in for a marker that is not there.
C27_DroppedMarkersTolerated ==
    cpc = "unit_restored" => cout = SubstituteMarkers(cmasked, cplaceholders)

\* three placeholders: the backend dropped marker 1 and put marker 2 before
\* marker 0
C27_Witness ==
    /\ cpc = "unit_restored"
    /\ Len(cplaceholders) = 3
    /\ \A k \in 1..Len(cmasked) : cmasked[k] # Marker(1)
    /\ \E j, k \in 1..Len(cmasked) :
          j < k /\ cmasked[j] = Marker(2) /\ cmasked[k] = Marker(0)
    /\ cout # cmasked

\* C28: when main has returned, a pass was run for every target language:
\* each is among the languages saved or among those whose pass failed.
C28_OtherLanguagesStillRun ==
    cli.rc \in {"0", "1"} =>
        Len(cli.saved) + Len(cli.failed) = Len(cli.targets)

C30_NoAutoCacheKeys ==
    /\ [](cfg.entry = "file" =>
            /\ pc \in {"tj_start", "seq", "flat", "super", "writeback"}
                  => source_lang # "auto"
            /\ \A r \in cache :
                  /\ r.source_lang # "auto"
                  /\ r.source_lang = source_lang /\ r.target_lang = cfg.target_lang)
    /\ [][(/\ cfg.entry = "file"
            /\ (cache' # cache \/ calls' # calls \/ cache_hits' # cache_hits
                 \/ ust' # ust))
           => (source_lang # "auto" /\ source_lang' = source_lang)]_vars

\* a file pass that began with "auto" has ended with entries in the cache
C30_Witness ==
    /\ cfg.entry = "file" /\ cfg.source_lang = "auto"
    /\ pc = "done" /\ N > 0
    /\ cache # {}
    /\ \A r \in cache : r.source_lang = DetectedLang

====
